---- MODULE Spec2Model ----
(***************************************************************************)
(* The RTMP chunk-stream decoder (crates/rtmp/src/chunk): ChunkDecoder,    *)
(* its read_chunk loop over a growable byte buffer, the per-stream header  *)
(* cache and the partial-message assembler, driven by a peer that frames   *)
(* messages into chunks and a transport that delivers the bytes in         *)
(* arbitrary pieces.  Bytes are modelled as bytes: headers are encoded by  *)
(* the peer and parsed by the decoder field by field.                      *)
(***************************************************************************)
EXTENDS Integers, Sequences, FiniteSets, TLC

\* ------------------------------------------------------------------ bounds
\* Number of chunks the peer puts on the wire in one run.
MaxChunks == 4
\* Number of chunks that may sit unread in front of the decoder at once.
MaxUnread == 2
\* Number of chunks the peer sends in the runs with piecewise delivery.
MaxByteChunks == 3
\* Number of chunks, other than those opening a stream, in the runs that
\* fill the two per-stream maps.
MaxExtraChunks == 2
\* Number of chunks the peer sends in the runs about timestamps.
MaxTimeChunks == 4
\* Number of chunks the peer sends in the runs that change the chunk size.
MaxResizeChunks == 4
MaxRoundChunks == 4
MaxSignals == 3
MaxBatch == 2
MaxConns == 3
MaxAcceptErrors == 2

\* --------------------------------------------------------- program constants
DEFAULT_CHUNK_SIZE == 128
MAX_PARTIAL_CHUNKS == 4
MAX_PREVIOUS_CHUNK_HEADERS == 100
MAX_PARTIAL_PAYLOAD_SIZE == 10485760
EXT_MARK == 16777215
U16_MAX == 65535

\* The message type ids the decoder recognizes.
MessageTypeIDs == {1, 2, 3, 4, 5, 6, 8, 9, 15, 16, 17, 18, 19, 20, 22}

\* ------------------------------------------------------------------ helpers
Min(a, b) == IF a < b THEN a ELSE b

SubSeqFrom(s, i) == SubSeq(s, i, Len(s))

\* Big-endian and little-endian reads at 1-based offset i of byte sequence b.
ReadU24BE(b, i) == b[i] * 65536 + b[i + 1] * 256 + b[i + 2]
\* A 32-bit value is kept as its two 16-bit halves << high, low >>.
ReadU32BE(b, i) == << b[i] * 256 + b[i + 1], b[i + 2] * 256 + b[i + 3] >>
\* Faulty variant: the four bytes are taken most significant first.
ReadU32LE_BigEndian(b, i) == << b[i] * 256 + b[i + 1], b[i + 2] * 256 + b[i + 3] >>

ReadU32LE(b, i) == << b[i + 2] + b[i + 3] * 256, b[i] + b[i + 1] * 256 >>
U32(v) == << v \div 65536, v % 65536 >>

\* The peer's serialization of the same fields.
WriteU24BE(v) == << (v \div 65536) % 256, (v \div 256) % 256, v % 256 >>
WriteU32BE(v) == << v[1] \div 256, v[1] % 256, v[2] \div 256, v[2] % 256 >>
WriteU32LE(v) == << v[2] % 256, v[2] \div 256, v[1] % 256, v[1] \div 256 >>

\* ------------------------------------------------------------ decoder values
NoHeader == [timestamp |-> << 0, 0 >>, msg_length |-> 0, msg_type_id |-> 0,
             msg_stream_id |-> << 0, 0 >>]
NoBasic == [format |-> 0, chunk_stream_id |-> 0]
NoChunk == [basic_header |-> NoBasic, message_header |-> NoHeader, payload |-> << >>]

NotCalled == [kind |-> "init", err |-> "", arg |-> << >>, chunk |-> NoChunk]
OkNone == [kind |-> "none", err |-> "", arg |-> << >>, chunk |-> NoChunk]
OkSome(c) == [kind |-> "some", err |-> "", arg |-> << >>, chunk |-> c]
Err(e, a) == [kind |-> "err", err |-> e, arg |-> a, chunk |-> NoChunk]

\* Outcomes of the readers: not enough bytes, a decode error, or a value.
Need == [st |-> "need", err |-> "", arg |-> << >>, format |-> 0, chunk_stream_id |-> 0,
         n |-> 0, hdr |-> NoHeader, ext |-> FALSE, take |-> 0]
Fail(e, a) == [Need EXCEPT !.st = "err", !.err = e, !.arg = a]

\* ------------------------------------------------------ 4.1 basic header
\* Faulty variant: the two bytes of the 3-byte form are taken high byte first.
ReadBasicHeader_BigEndianId(b) ==
    IF Len(b) < 1 THEN Need
    ELSE LET format == b[1] \div 64
             cs_low == b[1] % 64
         IN  IF cs_low = 0
             THEN IF Len(b) < 2 THEN Need
                  ELSE [Need EXCEPT !.st = "ok", !.format = format,
                                    !.chunk_stream_id = 64 + b[2], !.n = 2]
             ELSE IF cs_low = 1
             THEN IF Len(b) < 3 THEN Need
                  ELSE [Need EXCEPT !.st = "ok", !.format = format,
                                    !.chunk_stream_id = 64 + 256 * b[2] + b[3], !.n = 3]
             ELSE [Need EXCEPT !.st = "ok", !.format = format,
                               !.chunk_stream_id = cs_low, !.n = 1]

ReadBasicHeader(b) ==
    IF Len(b) < 1 THEN Need
    ELSE LET format == b[1] \div 64
             cs_low == b[1] % 64
         IN  IF cs_low = 0
             THEN IF Len(b) < 2 THEN Need
                  ELSE [Need EXCEPT !.st = "ok", !.format = format,
                                    !.chunk_stream_id = 64 + b[2], !.n = 2]
             ELSE IF cs_low = 1
             THEN IF Len(b) < 3 THEN Need
                  ELSE [Need EXCEPT !.st = "ok", !.format = format,
                                    !.chunk_stream_id = 64 + b[2] + 256 * b[3], !.n = 3]
             ELSE [Need EXCEPT !.st = "ok", !.format = format,
                               !.chunk_stream_id = cs_low, !.n = 1]

\* ------------------------------------------------------ 4.2 message header
\* Bytes of the message header proper for each format.
MessageHeaderLen(format) ==
    CASE format = 0 -> 11
      [] format = 1 -> 7
      [] format = 2 -> 3
      [] OTHER -> 0

\* Faulty variant: the type id is not validated.
ValidateHeader_NoTypeCheck(raw_type, hdr, ok) ==
    IF hdr.msg_length > MAX_PARTIAL_PAYLOAD_SIZE
    THEN Fail("PartialChunkTooLarge", << hdr.msg_length >>)
    ELSE ok

\* Faulty variant: the declared length is not bounded.
ValidateHeader_NoLengthBound(raw_type, hdr, ok) ==
    IF raw_type \notin MessageTypeIDs THEN Fail("InvalidMessageTypeID", << raw_type >>)
    ELSE ok

\* Validation of a materialized header: type id, then the length bound.
ValidateHeader(raw_type, hdr, ok) ==
    IF raw_type \notin MessageTypeIDs THEN Fail("InvalidMessageTypeID", << raw_type >>)
    ELSE IF hdr.msg_length > MAX_PARTIAL_PAYLOAD_SIZE
         THEN Fail("PartialChunkTooLarge", << hdr.msg_length >>)
         ELSE ok

\* Faulty variant: the sum wraps around modulo 2^32.
AddDelta_Wrapping(base, delta, hdr, ok) ==
    LET low == base[2] + delta[2]
        high == base[1] + delta[1] + low \div 65536
    IN  [ok EXCEPT !.hdr = [hdr EXCEPT !.timestamp = << high % 65536, low % 65536 >>]]

\* Checked 32-bit addition of a delta to the cached timestamp.
AddDelta(base, delta, hdr, ok) ==
    LET low == base[2] + delta[2]
        high == base[1] + delta[1] + low \div 65536
    IN  IF high > U16_MAX THEN Fail("TimestampOverflow", << base, delta >>)
        ELSE [ok EXCEPT !.hdr = [hdr EXCEPT !.timestamp = << high, low % 65536 >>]]

\* Faulty variant: a stream without a cache entry gets a default header.
LookupHeader_Default(lh, le, cs_id) ==
    IF cs_id \in DOMAIN lh
    THEN [found |-> TRUE, hdr |-> lh[cs_id], ext |-> le[cs_id]]
    ELSE [found |-> TRUE, hdr |-> NoHeader, ext |-> FALSE]

\* The cache entry of a stream: its last header and extended-timestamp flag.
LookupHeader(lh, le, cs_id) ==
    IF cs_id \in DOMAIN lh
    THEN [found |-> TRUE, hdr |-> lh[cs_id], ext |-> le[cs_id]]
    ELSE [found |-> FALSE, hdr |-> NoHeader, ext |-> FALSE]

\* Bytes of extended timestamp that follow a message header.
ExtendedLen(ext) == IF ext THEN 4 ELSE 0

\* Faulty variant: the bytes after a format-3 header are not skipped.
DiscardedLen_Zero(ext) == 0

\* Bytes read and discarded after a format-3 header.
DiscardedLen(ext) == IF ext THEN 4 ELSE 0

\* Faulty variant: the four bytes after a format-3 header become the timestamp.
ReuseHeader_TakeExtended(hdr, ext, b, p) ==
    IF ext THEN [hdr EXCEPT !.timestamp = ReadU32BE(b, p)] ELSE hdr

\* The header a format-3 chunk materializes: the cached one, whatever the
\* four bytes at p are.
ReuseHeader(hdr, ext, b, p) == hdr

\* Reads the message header that follows a basic header of `off` bytes.
\* lh is the per-stream last-header cache, le the extended-timestamp flags.
ReadMessageHeader(b, off, format, cs_id, lh, le) ==
    LET have == Len(b) - off
        base == MessageHeaderLen(format)
        p == off + 1
        prev == LookupHeader(lh, le, cs_id)
    IN  IF format = 3
        THEN IF ~prev.found
             THEN Fail("MissingPreviousChunkHeader", << cs_id >>)
             ELSE IF have < DiscardedLen(prev.ext) THEN Need
             ELSE [Need EXCEPT !.st = "ok", !.ext = prev.ext,
                               !.hdr = ReuseHeader(prev.hdr, prev.ext, b, p),
                               !.n = DiscardedLen(prev.ext)]
        ELSE IF have < base THEN Need
        ELSE LET field == ReadU24BE(b, p)
                 ext == (field = EXT_MARK)
                 n == base + ExtendedLen(ext)
             IN  IF have < n THEN Need
                 ELSE LET ts == IF ext THEN ReadU32BE(b, p + base) ELSE U32(field)
                          ok == [Need EXCEPT !.st = "ok", !.ext = ext, !.n = n]
                      IN  IF format = 0
                          THEN LET hdr == [timestamp |-> ts,
                                           msg_length |-> ReadU24BE(b, p + 3),
                                           msg_type_id |-> b[p + 6],
                                           msg_stream_id |-> ReadU32LE(b, p + 7)]
                               IN  ValidateHeader(b[p + 6], hdr, [ok EXCEPT !.hdr = hdr])
                          ELSE IF ~prev.found
                          THEN Fail("MissingPreviousChunkHeader", << cs_id >>)
                          ELSE IF format = 1
                          THEN LET hdr == [prev.hdr EXCEPT !.msg_length = ReadU24BE(b, p + 3),
                                                           !.msg_type_id = b[p + 6]]
                                   v == ValidateHeader(b[p + 6], hdr, ok)
                               IN  IF v.st = "err" THEN v
                                   ELSE AddDelta(prev.hdr.timestamp, ts, hdr, ok)
                          ELSE AddDelta(prev.hdr.timestamp, ts, prev.hdr, ok)

\* ------------------------------------------------------ 4.3 fragment size
\* Bytes already accumulated for the message in flight on cs_id.
Accumulated(pa, cs_id) == IF cs_id \in DOMAIN pa THEN Len(pa[cs_id]) ELSE 0

\* Faulty variant: the fragment size stays at the default chunk size.
FragmentSize_Default(cs, msg_length, acc) == Min(DEFAULT_CHUNK_SIZE, msg_length - acc)

FragmentSize(cs, msg_length, acc) == Min(cs, msg_length - acc)

\* Peeks one chunk (basic header, message header, fragment) at the front of b
\* without consuming anything.  n is the header length, take the fragment's.
PeekChunk(b, lh, le, pa, cs) ==
    LET bh == ReadBasicHeader(b)
    IN  IF bh.st # "ok" THEN bh
        ELSE LET mh == ReadMessageHeader(b, bh.n, bh.format, bh.chunk_stream_id, lh, le)
             IN  IF mh.st # "ok" THEN mh
                 ELSE LET take == FragmentSize(cs, mh.hdr.msg_length,
                                               Accumulated(pa, bh.chunk_stream_id))
                      IN  IF Len(b) < bh.n + mh.n + take THEN Need
                          ELSE [mh EXCEPT !.format = bh.format,
                                          !.chunk_stream_id = bh.chunk_stream_id,
                                          !.n = bh.n + mh.n, !.take = take]

\* --------------------------------------------------- 4.3/4.4 commit a chunk
\* Map helpers for the two per-stream maps (keyed by chunk stream id).
Insert(m, k, v) == [x \in DOMAIN m \cup {k} |-> IF x = k THEN v ELSE m[x]]
Remove(m, k) == [x \in DOMAIN m \ {k} |-> m[x]]

EmptyMap == [x \in {} |-> 0]

\* Faulty variant: the cache may grow one entry past the cap.
HeaderCapHit_OffByOne(lh, cs_id) ==
    cs_id \notin DOMAIN lh /\ Cardinality(DOMAIN lh) > MAX_PREVIOUS_CHUNK_HEADERS

\* The cap on the header cache applies when cs_id would be a new key.
HeaderCapHit(lh, cs_id) ==
    cs_id \notin DOMAIN lh /\ Cardinality(DOMAIN lh) >= MAX_PREVIOUS_CHUNK_HEADERS

\* Faulty variant: one partial buffer more than the cap is allowed.
\* Faulty variant: the cap also refuses a message that fits in its chunk.
PartialCapHit_SingleChunkToo(pa, cs_id, complete) ==
    cs_id \notin DOMAIN pa /\ Cardinality(DOMAIN pa) >= MAX_PARTIAL_CHUNKS

PartialCapHit_OffByOne(pa, cs_id, complete) ==
    ~complete /\ cs_id \notin DOMAIN pa /\ Cardinality(DOMAIN pa) > MAX_PARTIAL_CHUNKS

\* Faulty variant: the cap is applied to streams that already have a buffer.
PartialCapHit_AnyStream(pa, cs_id, complete) ==
    ~complete /\ Cardinality(DOMAIN pa) >= MAX_PARTIAL_CHUNKS

\* The cap on partial buffers applies when a new partial buffer is needed.
PartialCapHit(pa, cs_id, complete) ==
    ~complete /\ cs_id \notin DOMAIN pa /\ Cardinality(DOMAIN pa) >= MAX_PARTIAL_CHUNKS

\* Faulty variant: the entry is kept when the message completes.
\* Faulty variant: a completed message takes every partial buffer with it.
AppendFragment_ClearAll(pa, cs_id, payload, complete) ==
    IF complete THEN EmptyMap ELSE Insert(pa, cs_id, payload)

\* Faulty variant: the entry of a completed message stays in the map.
AppendFragment_Keep(pa, cs_id, payload, complete) == Insert(pa, cs_id, payload)

\* The partial-buffer map after a fragment: the entry is dropped on completion.
AppendFragment(pa, cs_id, payload, complete) ==
    IF complete THEN Remove(pa, cs_id) ELSE Insert(pa, cs_id, payload)

\* Faulty variant: a decoded chunk is left in the buffer.
Advance_Stay(b, n) == b

\* Faulty variant: the last byte of the chunk is left in the buffer.
Advance_Short(b, n) == SubSeqFrom(b, n)

\* The buffer after the bytes of one chunk have been taken from its front.
Advance(b, n) == SubSeqFrom(b, n + 1)

\* Faulty variant: what the stream has accumulated is left out of the count.
IsComplete_FirstFragment(acc, take, msg_length) == take = msg_length

\* Whether the message on cs_id is complete once `take` more bytes are added.
IsComplete(acc, take, msg_length) == acc + take = msg_length

\* Faulty variant: the fragment is cut from the front of the chunk.
Fragment_FromStart(b, n, take) == SubSeq(b, 1, take)

\* The payload fragment of a chunk whose header is n bytes long.
Fragment(b, n, take) == SubSeq(b, n + 1, n + take)

\* Faulty variant: once a stream had an extended header the flag stays set.
ExtendedFlag_Sticky(le, cs_id, ext) == ext \/ (cs_id \in DOMAIN le /\ le[cs_id])

\* The flag cached with a header: whether that header had the extended form.
ExtendedFlag(le, cs_id, ext) == ext

\* Faulty variant: the header of a refused chunk is cached all the same.
Refuse_CacheFirst(d, p, e) ==
    [d EXCEPT !.res = Err(e, << >>),
              !.lh = Insert(d.lh, p.chunk_stream_id, p.hdr),
              !.le = Insert(d.le, p.chunk_stream_id, p.ext)]

\* A chunk refused by a cap leaves the decoder as it was before the chunk.
Refuse(d, p, e) == [d EXCEPT !.res = Err(e, << >>)]

\* Faulty variant: a format-0 chunk starts the buffer of its stream afresh.
Carried_RestartOnFormat0(pa, cs_id, format) ==
    IF cs_id \in DOMAIN pa /\ format # 0 THEN pa[cs_id] ELSE << >>

\* The bytes a fragment is appended to: the partial buffer of the stream,
\* whatever the format of the chunk.
Carried(pa, cs_id, format) == IF cs_id \in DOMAIN pa THEN pa[cs_id] ELSE << >>

\* Faulty variant: the header emitted is the one cached before the chunk.
EmittedHeader_Stale(lh, cs_id, hdr) == IF cs_id \in DOMAIN lh THEN lh[cs_id] ELSE hdr

\* The message header of an emitted chunk: the one the chunk that completed
\* the message materialized.
EmittedHeader(lh, cs_id, hdr) == hdr

\* Faulty variant: the cache entry goes with the message that is emitted.
CacheHeader_DropOnEmit(lh, cs_id, hdr, complete) ==
    IF complete THEN Remove(lh, cs_id) ELSE Insert(lh, cs_id, hdr)

\* The header cache after a chunk: the entry of the stream is the header of
\* the chunk, also when the chunk completed a message.
CacheHeader(lh, cs_id, hdr, complete) == Insert(lh, cs_id, hdr)

\* d is the decoder during one read_chunk call; p a peeked chunk.
CommitChunk(d, p) ==
    LET cs_id == p.chunk_stream_id
        acc == Accumulated(d.pa, cs_id)
        frag == Fragment(d.buf, p.n, p.take)
        payload == Carried(d.pa, cs_id, p.format) \o frag
        complete == IsComplete(acc, p.take, p.hdr.msg_length)
    IN  IF HeaderCapHit(d.lh, cs_id)
        THEN Refuse(d, p, "TooManyPreviousChunkHeaders")
        ELSE IF PartialCapHit(d.pa, cs_id, complete)
        THEN Refuse(d, p, "TooManyPartialChunks")
        ELSE [d EXCEPT !.buf = Advance(d.buf, p.n + p.take),
                       !.lh = CacheHeader(d.lh, cs_id, p.hdr, complete),
                       !.le = Insert(d.le, cs_id, ExtendedFlag(d.le, cs_id, p.ext)),
                       !.pa = AppendFragment(d.pa, cs_id, payload, complete),
                       !.n = d.n + 1,
                       !.res = IF complete
                               THEN OkSome([basic_header |-> [format |-> p.format,
                                                              chunk_stream_id |-> cs_id],
                                            message_header |->
                                                EmittedHeader(d.lh, cs_id, p.hdr),
                                            payload |-> payload])
                               ELSE OkNone]

\* Faulty variant: a call decodes one chunk and returns.
KeepReading_Never(res) == FALSE

\* Faulty variant: the loop goes on after a completed message.
KeepReading_AfterSome(res) == res.kind # "err"

\* Whether the loop goes on to the next chunk after a committed one.
KeepReading(res) == res.kind = "none"

\* read_chunk: decode chunks from the front of the buffer until a message
\* completes, the front of the buffer holds no complete chunk, or an error.
RECURSIVE ReadLoop(_, _)
ReadLoop(d, cs) ==
    LET p == PeekChunk(d.buf, d.lh, d.le, d.pa, cs)
    IN  IF p.st = "need" THEN [d EXCEPT !.res = OkNone]
        ELSE IF p.st = "err" THEN [d EXCEPT !.res = Err(p.err, p.arg)]
        ELSE LET c == CommitChunk(d, p)
             IN  IF KeepReading(c.res) THEN ReadLoop(c, cs) ELSE c

\* ------------------------------------------------------------------ the peer
\* The peer frames messages the way the protocol prescribes: per chunk stream
\* it remembers the declared length and the bytes of the message in flight,
\* and every chunk carries min(chunk size, bytes still missing) payload bytes.
MSG_STREAM_ID == << 0, 256 >>
EXT_VALUE == << 256, 0 >>
DISCARDED_EXT == << 0, 0 >>
INVALID_TYPE == 255
OVERSIZED == 16777215

\* 32-bit sum of two values kept as halves; the high half of the result
\* exceeds 16 bits when the sum does not fit in 32 bits.
Plus32(a, b) == << a[1] + b[1] + (a[2] + b[2]) \div 65536, (a[2] + b[2]) % 65536 >>

Fits32(v) == v[1] <= U16_MAX

\* Size of the basic header the peer writes for a chunk stream id.
BasicForm(cs_id) == IF cs_id < 64 THEN 1 ELSE IF cs_id < 320 THEN 2 ELSE 3

EncodeBasicHeader(format, cs_id) ==
    CASE BasicForm(cs_id) = 1 -> << format * 64 + cs_id >>
      [] BasicForm(cs_id) = 2 -> << format * 64, cs_id - 64 >>
      [] OTHER -> << format * 64 + 1, (cs_id - 64) % 256, (cs_id - 64) \div 256 >>

\* c is the peer's choice of chunk: c.ts is the 24-bit timestamp field and
\* c.ext the four bytes that follow the header when there are any; ext3 says
\* whether a format-3 chunk on this stream carries those four bytes.
EncodeMessageHeader(c, ext3) ==
    CASE c.format = 0 ->
            WriteU24BE(c.ts) \o WriteU24BE(c.len) \o << c.type >> \o WriteU32LE(MSG_STREAM_ID)
            \o (IF c.ts = EXT_MARK THEN WriteU32BE(c.ext) ELSE << >>)
      [] c.format = 1 ->
            WriteU24BE(c.ts) \o WriteU24BE(c.len) \o << c.type >>
            \o (IF c.ts = EXT_MARK THEN WriteU32BE(c.ext) ELSE << >>)
      [] c.format = 2 ->
            WriteU24BE(c.ts) \o (IF c.ts = EXT_MARK THEN WriteU32BE(c.ext) ELSE << >>)
      [] OTHER -> IF ext3 THEN WriteU32BE(c.ext) ELSE << >>

\* Payload bytes identify the message (its serial number) and the offset.
PayloadByte(serial, offset) == (16 * serial + offset) % 256
PayloadBytes(serial, from, n) == [i \in 1..n |-> PayloadByte(serial, from + i - 1)]

\* The chunks a peer may choose from: formats 0 and 1 carry a length and a
\* type, format 2 only a timestamp delta, format 3 nothing.
ChunkChoices(C, T, L, Y) ==
    [format : {0, 1}, cs_id : C, ts : T, len : L, type : Y, ext : {EXT_VALUE}]
    \cup [format : {2}, cs_id : C, ts : T, len : {0}, type : {0}, ext : {EXT_VALUE}]
    \cup [format : {3}, cs_id : C, ts : {0}, len : {0}, type : {0}, ext : {DISCARDED_EXT}]

VARIABLES
    buf,            \* the decoder's input buffer (bytes not yet consumed)
    chunk_size,     \* the decoder's maximum chunk size
    last_header,    \* per-stream cache: chunk stream id -> last header
    last_extended,  \* per-stream flag: the last header was extended
    partial,        \* chunk stream id -> payload accumulated so far
    result,         \* what the last read_chunk call returned
    consumed,       \* bytes the last read_chunk call took from the buffer
    nread,          \* chunks the last read_chunk call decoded
    emitted,        \* every chunk returned so far, in order
    wire,           \* bytes sent by the peer, not yet in the buffer
    enc,            \* the peer's per-stream framing state
    serial,         \* messages the peer has started
    nsent,          \* chunks the peer has sent
    unread,         \* the peer's record of the chunks not yet consumed
    completed,      \* messages whose last chunk the decoder has consumed
    cut,            \* bytes consumed beyond the last whole chunk
    signals,        \* SignalHandler: the (kind, listener) pairs, in order
    listened,       \* SignalHandler: listeners it has created
    polled,         \* SignalHandler: what the last poll returned
    asked,          \* SignalHandler: the kind last passed to add_signal
    wakers,         \* SignalHandler: the listeners that hold the task's waker
    woken,          \* the task was woken since its last poll
    raised,         \* the OS signal the process received last
    owed,           \* OS signals delivered to a listener and not yet reported
    run,            \* SecureBackend::run: where the call is
    tasks,          \* SecureBackend::run: the spawned connection tasks, in order
    incoming,       \* connections waiting in the listener
    accept_errors,  \* accept calls of the listener that failed
    ctx_done        \* self.ctx is cancelled

signalVars == << signals, listened, polled, asked, wakers, woken, raised, owed >>

chunkVars == << buf, chunk_size, last_header, last_extended, partial, result, consumed,
                nread, emitted, wire, enc, serial, nsent, unread, completed, cut >>

serverVars == << run, tasks, incoming, accept_errors, ctx_done >>

vars == << chunkVars, signalVars, serverVars >>

decoderVars == << chunk_size, last_header, last_extended, partial, result, consumed,
                  nread, emitted >>

\* The kinds of signal: Interrupt, Terminate and Unix(k).
Kind(tag, unix) == [tag |-> tag, unix |-> unix]
Interrupt == Kind("Interrupt", "")
Terminate == Kind("Terminate", "")
Unix(k) == Kind("Unix", k)

NotPolled == [st |-> "none", kind |-> Kind("", "")]
Pending == [st |-> "pending", kind |-> Kind("", "")]
Ready(kind) == [st |-> "ready", kind |-> kind]

\* SignalHandler::new(): no signals.
New ==
    /\ signals = << >>
    /\ listened = 0
    /\ polled = NotPolled
    /\ asked = Kind("", "")
    /\ wakers = {}
    /\ woken = FALSE
    /\ raised = ""
    /\ owed = {}

\* SecureBackend::run has not been called.
NotStarted ==
    /\ run = "init"
    /\ tasks = << >>
    /\ incoming = 0
    /\ accept_errors = 0
    /\ ctx_done = FALSE

Init ==
    /\ New
    /\ NotStarted
    /\ buf = << >>
    /\ chunk_size = DEFAULT_CHUNK_SIZE
    /\ last_header = EmptyMap
    /\ last_extended = EmptyMap
    /\ partial = EmptyMap
    /\ result = NotCalled
    /\ consumed = 0
    /\ nread = 0
    /\ emitted = << >>
    /\ wire = << >>
    /\ enc = EmptyMap
    /\ serial = 0
    /\ nsent = 0
    /\ unread = << >>
    /\ completed = << >>
    /\ cut = 0

\* The peer sends chunk c: it is framed against the peer's own state.
PeerSend(c, limit) ==
    LET known == c.cs_id \in DOMAIN enc
        sent == IF known THEN enc[c.cs_id].sent ELSE << >>
        L == IF c.format \in {0, 1} THEN c.len
             ELSE IF known THEN enc[c.cs_id].msg_length ELSE 0
        bad == \/ c.format # 0 /\ ~known
               \/ c.format \in {0, 1} /\ (c.type \notin MessageTypeIDs
                                          \/ c.len > MAX_PARTIAL_PAYLOAD_SIZE)
        ser == IF sent = << >> THEN serial + 1 ELSE enc[c.cs_id].serial
        n == IF bad THEN 0 ELSE Min(chunk_size, L - Len(sent))
        frag == PayloadBytes(ser, Len(sent), n)
        final == ~bad /\ Len(sent) + n = L
        ext == IF c.format = 3 THEN known /\ enc[c.cs_id].ext ELSE c.ts = EXT_MARK
        value == IF c.format = 3 \/ c.ts = EXT_MARK THEN c.ext ELSE U32(c.ts)
        delta == IF c.format \in {1, 2} THEN value
                 ELSE IF c.format = 3 /\ known THEN enc[c.cs_id].delta ELSE << 0, 0 >>
        ts == IF c.format = 0 THEN value
              ELSE IF ~known THEN << 0, 0 >>
              ELSE IF c.format = 3 /\ sent # << >> THEN enc[c.cs_id].ts
              ELSE Plus32(enc[c.cs_id].ts, delta)
        type == IF c.format \in {0, 1} THEN c.type
                ELSE IF known THEN enc[c.cs_id].type ELSE 0
        bytes == EncodeBasicHeader(c.format, c.cs_id) \o EncodeMessageHeader(c, ext) \o frag
    IN  /\ result.kind # "err"
        /\ nsent < limit
        /\ Len(unread) < MaxUnread
        /\ wire = << >>
        /\ bad \/ L >= Len(sent)
        /\ wire' = bytes
        /\ nsent' = nsent + 1
        /\ serial' = IF ~bad /\ sent = << >> THEN serial + 1 ELSE serial
        /\ enc' = IF bad THEN enc
                  ELSE Insert(enc, c.cs_id,
                              [msg_length |-> L, ext |-> ext, serial |-> ser,
                               delta |-> delta, ts |-> ts, type |-> type,
                               sent |-> IF final THEN << >> ELSE sent \o frag])
        /\ unread' = Append(unread, [n |-> Len(bytes), hlen |-> Len(bytes) - n,
                                     first |-> bytes[1],
                                     format |-> c.format, cs_id |-> c.cs_id,
                                     bad |-> bad, final |-> final, serial |-> ser,
                                     len |-> L, type |-> c.type, take |-> n,
                                     field |-> c.ts, value |-> value,
                                     delta |-> delta, ext |-> ext,
                                     ts |-> ts, mtype |-> type,
                                     msg |-> IF final THEN sent \o frag ELSE << >>])
        /\ UNCHANGED << buf, completed, cut >>
        /\ UNCHANGED decoderVars
        /\ UNCHANGED signalVars
    /\ UNCHANGED serverVars
        /\ UNCHANGED serverVars

\* The transport hands the next k bytes to the decoder's buffer.
Deliver(k) ==
    /\ result.kind # "err"
    /\ k \in 1..Len(wire)
    /\ buf' = buf \o SubSeq(wire, 1, k)
    /\ wire' = SubSeqFrom(wire, k + 1)
    /\ UNCHANGED << enc, serial, nsent, unread, completed, cut >>
    /\ UNCHANGED decoderVars
    /\ UNCHANGED signalVars
    /\ UNCHANGED serverVars

\* The peer's record after the decoder took k bytes: whole chunks leave the
\* record; r.cut is what was taken beyond the last whole chunk.
RECURSIVE Settle(_, _, _)
Settle(u, k, done) ==
    IF k = 0 \/ u = << >> THEN [unread |-> u, done |-> done, cut |-> k]
    ELSE IF k < Head(u).n
         THEN [unread |-> << [Head(u) EXCEPT !.n = @ - k] >> \o Tail(u),
               done |-> done, cut |-> k]
         ELSE Settle(Tail(u), k - Head(u).n,
                     IF Head(u).final THEN Append(done, Head(u)) ELSE done)

\* One call of read_chunk on the buffer.
ReadChunk ==
    LET d0 == [buf |-> buf, lh |-> last_header, le |-> last_extended, pa |-> partial,
               n |-> 0, res |-> NotCalled]
        d == ReadLoop(d0, chunk_size)
        k == Len(buf) - Len(d.buf)
        s == Settle(unread, k, completed)
    IN  /\ result.kind # "err"
        /\ buf' = d.buf
        /\ last_header' = d.lh
        /\ last_extended' = d.le
        /\ partial' = d.pa
        /\ result' = d.res
        /\ consumed' = k
        /\ nread' = d.n
        /\ emitted' = IF d.res.kind = "some" THEN Append(emitted, d.res.chunk) ELSE emitted
        /\ unread' = s.unread
        /\ completed' = s.done
        /\ cut' = s.cut
        /\ UNCHANGED << chunk_size, wire, enc, serial, nsent >>
        /\ UNCHANGED signalVars
    /\ UNCHANGED serverVars
        /\ UNCHANGED serverVars

\* update_max_chunk_size(n), called between chunks: the peer switches too.
UpdateMaxChunkSize(n) ==
    /\ result.kind # "err"
    /\ n # chunk_size
    /\ buf = << >> /\ wire = << >>
    /\ chunk_size' = n
    /\ UNCHANGED << buf, last_header, last_extended, partial, result, consumed, nread,
                    emitted, wire, enc, serial, nsent, unread, completed, cut >>
    /\ UNCHANGED signalVars
    /\ UNCHANGED serverVars

\* ------------------------------------------------------------ specifications
\* Chunk sizes the caller sets; they are negotiated before the first chunk.
ChunkSizes == {1, DEFAULT_CHUNK_SIZE}

SetChunkSize == \E n \in ChunkSizes : nsent = 0 /\ UpdateMaxChunkSize(n)

\* Two streams: one with every format and a message with an extended
\* timestamp, one with a two-byte basic header, format 0 and 3 chunks and an
\* empty message.
GeneralChoices ==
    ChunkChoices({3}, {1}, {2}, {9})
    \cup [format : {0, 3}, cs_id : {74}, ts : {1}, len : {2}, type : {9},
           ext : {DISCARDED_EXT}]
    \cup [format : {0}, cs_id : {3}, ts : {EXT_MARK}, len : {1}, type : {8},
           ext : {EXT_VALUE}]
    \cup [format : {0}, cs_id : {74}, ts : {1}, len : {0}, type : {9},
           ext : {DISCARDED_EXT}]

Send == \E c \in GeneralChoices : PeerSend(c, MaxChunks)

\* The transport delivers a chunk in one piece.
DeliverChunk == wire # << >> /\ Deliver(Len(wire))

Next == Send \/ DeliverChunk \/ ReadChunk \/ SetChunkSize

Spec == Init /\ [][Next]_vars

\* Fewer chunks, delivered in pieces of any size: one stream with every
\* format, a second stream, and the headers that fail validation.
ByteChoices ==
    ChunkChoices({3}, {1}, {2}, {9})
    \cup [format : {0, 3}, cs_id : {74}, ts : {EXT_MARK}, len : {2}, type : {8},
           ext : {EXT_VALUE}]
    \cup [format : {0}, cs_id : {3}, ts : {1}, len : {OVERSIZED}, type : {9},
           ext : {DISCARDED_EXT}]
    \cup [format : {0}, cs_id : {3}, ts : {1}, len : {2}, type : {INVALID_TYPE},
           ext : {DISCARDED_EXT}]

SendFew == \E c \in ByteChoices : PeerSend(c, MaxByteChunks)

DeliverBytes == \E k \in 1..Len(wire) : Deliver(k)

NextBytes == SendFew \/ DeliverBytes \/ ReadChunk \/ SetChunkSize

SpecBytes == Init /\ [][NextBytes]_vars

\* Many streams.  The peer opens streams 64, 65, ... in order: the first
\* MAX_PARTIAL_CHUNKS with a three-byte message (in flight when the chunk
\* size is 1), the later ones with an empty message.  Besides opening
\* streams it sends a few other chunks: a continuation or a repeated format-0
\* header on a stream it has opened, or a three-byte message on a new stream.
\* It either stays with its first streams or opens a hundred in a row before
\* sending those.
Opened == Cardinality(DOMAIN enc)

NearCaps == Opened <= MAX_PARTIAL_CHUNKS + 1 \/ Opened >= MAX_PREVIOUS_CHUNK_HEADERS - 1

OpenChoices ==
    { [format |-> 0, cs_id |-> 64 + Opened, ts |-> 1, type |-> 9, ext |-> DISCARDED_EXT,
       len |-> IF Opened < MAX_PARTIAL_CHUNKS THEN 3 ELSE 0] }
    \cup { [format |-> 0, cs_id |-> 64 + Opened, ts |-> 1, type |-> 9, len |-> 3,
             ext |-> DISCARDED_EXT] :
              x \in {y \in {Opened} : y = MAX_PARTIAL_CHUNKS
                                      \/ y >= MAX_PREVIOUS_CHUNK_HEADERS - 1} }

ExtraChoices ==
    { [format |-> 3, cs_id |-> s, ts |-> 0, len |-> 0, type |-> 0,
         ext |-> DISCARDED_EXT] : s \in {64, 64 + Opened - 1} }
    \cup { [format |-> 0, cs_id |-> 64, ts |-> 1, len |-> 3, type |-> 9,
             ext |-> DISCARDED_EXT] }

CapsLimit == MAX_PREVIOUS_CHUNK_HEADERS + 1 + MaxExtraChunks

OpenStream ==
    /\ Opened <= MAX_PREVIOUS_CHUNK_HEADERS
    /\ Opened <= MAX_PARTIAL_CHUNKS \/ nsent = Opened
    /\ \E c \in OpenChoices : PeerSend(c, CapsLimit)

SendExtra ==
    /\ Opened >= 1
    /\ NearCaps
    /\ nsent - Opened < MaxExtraChunks
    /\ \E c \in ExtraChoices : PeerSend(c, CapsLimit)

NextCaps == OpenStream \/ SendExtra \/ DeliverChunk \/ ReadChunk \/ SetChunkSize

SpecCaps == Init /\ [][NextCaps]_vars

\* One stream and its timestamps.  Messages of three bytes, sent in one chunk
\* or in three; absolute timestamps and deltas in the 24-bit field or in
\* the extended form, up to the last 32-bit value; format-3 chunks followed,
\* when the stream calls for it, by four bytes of either value.  The peer
\* sends a chunk when the decoder has taken the one before.
NEAR_MAX == << U16_MAX, U16_MAX - 1 >>

TimeChoices ==
    [format : {0}, cs_id : {3}, ts : {1, U16_MAX}, len : {3}, type : {9},
     ext : {DISCARDED_EXT}]
    \cup [format : {0}, cs_id : {3}, ts : {EXT_MARK}, len : {3}, type : {9},
           ext : {EXT_VALUE, NEAR_MAX}]
    \cup [format : {1}, cs_id : {3}, ts : {EXT_MARK}, len : {3}, type : {9},
           ext : {EXT_VALUE}]
    \cup [format : {2}, cs_id : {3}, ts : {1}, len : {0}, type : {0}, ext : {DISCARDED_EXT}]
    \cup [format : {3}, cs_id : {3}, ts : {0}, len : {0}, type : {0},
           ext : {DISCARDED_EXT, NEAR_MAX}]

SendTimed == unread = << >> /\ \E c \in TimeChoices : PeerSend(c, MaxTimeChunks)

NextTime == SendTimed \/ DeliverChunk \/ ReadChunk \/ SetChunkSize

SpecTime == Init /\ [][NextTime]_vars

\* The chunk size changes while messages are in flight.  Two streams carry
\* messages of four bytes; between two chunks the caller may set any of three
\* chunk sizes, and the peer frames the next chunk with the new size.
ResizeChoices ==
    [format : {0, 3}, cs_id : {3}, ts : {1}, len : {4}, type : {9}, ext : {DISCARDED_EXT}]
    \cup [format : {0}, cs_id : {74}, ts : {1}, len : {4}, type : {9},
           ext : {DISCARDED_EXT}]

ResizeSizes == {1, 2, DEFAULT_CHUNK_SIZE}

SendNext == unread = << >> /\ \E c \in ResizeChoices : PeerSend(c, MaxResizeChunks)

Resize == \E n \in ResizeSizes : UpdateMaxChunkSize(n)

NextResize == SendNext \/ DeliverChunk \/ ReadChunk \/ Resize

SpecResize == Init /\ [][NextResize]_vars

\* The fields of a format-0 header, byte by byte.  The caller hands a fresh
\* decoder one chunk on stream 3 whose timestamp, length, stream id and
\* extended timestamp bytes are drawn from the sets below, followed by the
\* first fragment of the message; the peer is not involved.
TimestampBytes == {0, 255} \X {0, 255} \X {0, 1, 255}
LengthBytes == {0, 255} \X {0, 15} \X {0, 1}
StreamIdBytes == {0, 1} \X {0, 1} \X {0, 2} \X {0, 255}
ExtendedBytes == {<< 1, 0, 0, 0 >>, << 0, 0, 2, 3 >>, << 255, 254, 253, 252 >>}

VIDEO == 9

\* The chunk with those header bytes: the extended timestamp is there when
\* the timestamp bytes are FF FF FF, the fragment has min(chunk size, length)
\* bytes unless the length is above the bound.
FieldChunk(t, l, s, e) ==
    LET len == l[1] * 65536 + l[2] * 256 + l[3]
        take == IF len > MAX_PARTIAL_PAYLOAD_SIZE THEN 0 ELSE Min(DEFAULT_CHUNK_SIZE, len)
    IN  << 3 >> \o t \o l \o << VIDEO >> \o s
        \o (IF t = << 255, 255, 255 >> THEN e ELSE << >>)
        \o PayloadBytes(1, 0, take)

InitFields ==
    /\ New
    /\ NotStarted
    /\ \E t \in TimestampBytes, l \in LengthBytes, s \in StreamIdBytes, e \in ExtendedBytes :
          buf = FieldChunk(t, l, s, e)
    /\ chunk_size = DEFAULT_CHUNK_SIZE
    /\ last_header = EmptyMap
    /\ last_extended = EmptyMap
    /\ partial = EmptyMap
    /\ result = NotCalled
    /\ consumed = 0
    /\ nread = 0
    /\ emitted = << >>
    /\ wire = << >>
    /\ enc = EmptyMap
    /\ serial = 0
    /\ nsent = 0
    /\ unread = << >>
    /\ completed = << >>
    /\ cut = 0

NextFields == ReadChunk

SpecFields == InitFields /\ [][NextFields]_vars

\* The basic header, byte by byte.  The caller hands a fresh decoder a chunk
\* of any format whose first byte holds any of four values of the 6-bit
\* field, followed by the bytes of the extended forms, with an empty message;
\* a format-0 chunk on the same stream may come first, so that the compressed
\* formats decode, and the buffer may stop at any byte.
CsLows == {0, 1, 2, 63}
IdBytes == {0, 10, 13, 255}

BasicBytes(format, cs_low, x, y) ==
    << 64 * format + cs_low >>
    \o (IF cs_low = 0 THEN << x >> ELSE IF cs_low = 1 THEN << x, y >> ELSE << >>)

\* A message header of the format for an empty video message.
EmptyMessage(format) ==
    CASE format = 0 -> << 0, 0, 1, 0, 0, 0, VIDEO, 0, 1, 0, 0 >>
      [] format = 1 -> << 0, 0, 1, 0, 0, 0, VIDEO >>
      [] format = 2 -> << 0, 0, 1 >>
      [] OTHER -> << >>

BasicInput(format, cs_low, x, y, first) ==
    (IF first THEN BasicBytes(0, cs_low, x, y) \o EmptyMessage(0) ELSE << >>)
    \o BasicBytes(format, cs_low, x, y) \o EmptyMessage(format)

InitBasic ==
    /\ New
    /\ NotStarted
    /\ \E format \in 0..3, cs_low \in CsLows, x \in IdBytes, y \in IdBytes, first \in BOOLEAN :
          \E keep \in 1..Len(BasicInput(format, cs_low, x, y, first)) :
              buf = SubSeq(BasicInput(format, cs_low, x, y, first), 1, keep)
    /\ chunk_size = DEFAULT_CHUNK_SIZE
    /\ last_header = EmptyMap
    /\ last_extended = EmptyMap
    /\ partial = EmptyMap
    /\ result = NotCalled
    /\ consumed = 0
    /\ nread = 0
    /\ emitted = << >>
    /\ wire = << >>
    /\ enc = EmptyMap
    /\ serial = 0
    /\ nsent = 0
    /\ unread = << >>
    /\ completed = << >>
    /\ cut = 0

NextBasic == ReadChunk

SpecBasic == InitBasic /\ [][NextBasic]_vars

\* Many streams and chunks that fail.  The peer opens its streams as above;
\* besides, it sends a continuation, or a chunk the decoder has to refuse: an
\* unknown type id, a length above the bound (formats 0 and 1), a delta that
\* takes the timestamp past 32 bits, a compressed header on a new stream.
\* A chunk with a payload may arrive header first.
BIG_EXT == << U16_MAX, U16_MAX >>

FaultChoices ==
    { [format |-> 3, cs_id |-> 64, ts |-> 0, len |-> 0, type |-> 0,
       ext |-> DISCARDED_EXT] }
    \cup [format : {0, 1}, cs_id : {64}, ts : {1}, len : {3}, type : {INVALID_TYPE},
           ext : {DISCARDED_EXT}]
    \cup [format : {0, 1}, cs_id : {64}, ts : {1}, len : {OVERSIZED}, type : {9},
           ext : {DISCARDED_EXT}]
    \cup [format : {1}, cs_id : {64}, ts : {EXT_MARK}, len : {3}, type : {9},
           ext : {BIG_EXT}]
    \cup { [format |-> 2, cs_id |-> 64 + Opened, ts |-> 1, len |-> 0, type |-> 0,
             ext |-> DISCARDED_EXT] }

SendFault ==
    /\ Opened >= 1
    /\ NearCaps
    /\ nsent - Opened < MaxExtraChunks
    /\ \E c \in FaultChoices : PeerSend(c, CapsLimit)

\* The transport delivers the header of the chunk just sent, not its payload.
DeliverHeader ==
    /\ unread # << >>
    /\ Len(wire) = unread[Len(unread)].n
    /\ unread[Len(unread)].take > 0
    /\ Deliver(unread[Len(unread)].hlen)

NextFaults ==
    OpenStream \/ SendFault \/ DeliverChunk \/ DeliverHeader \/ ReadChunk \/ SetChunkSize

SpecFaults == Init /\ [][NextFaults]_vars

\* ---------------------------------------------------------------- properties
\* The chunk at the front of the peer's record of unconsumed chunks.
\* A conforming encoder: two interleaved streams, a message starts with a
\* chunk of any format (a compressed one only on a stream that has a header)
\* and goes on with format 3 chunks.
AUDIO == 8

RoundChoices ==
    ChunkChoices({3}, {1}, {2}, {AUDIO, VIDEO})
    \cup [format : {0}, cs_id : {3}, ts : {EXT_MARK}, len : {2}, type : {VIDEO},
           ext : {EXT_VALUE}]
    \cup [format : {0, 3}, cs_id : {74}, ts : {1}, len : {2}, type : {VIDEO},
           ext : {DISCARDED_EXT}]

Conforming(c) ==
    /\ c.format # 0 => c.cs_id \in DOMAIN enc
    /\ (c.format # 3 /\ c.cs_id \in DOMAIN enc) => enc[c.cs_id].sent = << >>

SendConforming ==
    \E c \in RoundChoices : Conforming(c) /\ PeerSend(c, MaxRoundChunks)

NextRound == SendConforming \/ DeliverChunk \/ ReadChunk \/ SetChunkSize

SpecRound == Init /\ [][NextRound]_vars

\* --------------------------------------------------------- the signal handler
\* The signals the process handles and the kinds a caller can name:
\* Interrupt, and Unix(k) built directly for any k.
UnixSignalKinds == {"SIGINT", "SIGUSR1", "SIGUSR2"}

SignalKinds == {Interrupt} \cup {Unix(k) : k \in UnixSignalKinds}

\* impl From<UnixSignalKind> for SignalKind.
FromUnix(k) ==
    IF k = "SIGINT" THEN Interrupt
    ELSE IF k = "SIGTERM" THEN Terminate
    ELSE Unix(k)

\* What a caller passes as `impl Into<SignalKind>`: a converted UnixSignalKind
\* or a SignalKind as it is.
Inputs == {FromUnix(k) : k \in UnixSignalKinds} \cup SignalKinds

\* SignalKind::listen: the OS signal the new listener is subscribed to.
Listen(kind) ==
    IF kind.tag = "Interrupt" THEN "SIGINT"
    ELSE IF kind.tag = "Terminate" THEN "SIGTERM"
    ELSE kind.unix

\* Faulty variant: the list is not searched.
Listed_Never(sigs, kind) == FALSE

\* self.signals.iter().any(|(k, _)| k == &kind)
Listed(sigs, kind) == \E i \in 1..Len(sigs) : sigs[i].kind = kind

\* add_signal on the handler h: a kind in the list is not added again,
\* another one gets a listener and is pushed.
Add(h, kind) ==
    IF Listed(h.signals, kind) THEN h
    ELSE [signals |-> Append(h.signals, [kind |-> kind, os |-> Listen(kind),
                                         ready |-> FALSE]),
          listened |-> h.listened + 1]

\* with_signals: add_signal for each element, from a handler with no signals.
RECURSIVE Fold(_, _)
Fold(h, kinds) == IF kinds = << >> THEN h ELSE Fold(Add(h, Head(kinds)), Tail(kinds))

\* add_signal(kind) and with_signal(kind), which calls it.
AddSignal(kind) ==
    LET h == Add([signals |-> signals, listened |-> listened], kind)
    IN  /\ Len(h.signals) <= MaxSignals
        /\ signals' = h.signals
        /\ listened' = h.listened
        /\ asked' = kind
        /\ UNCHANGED << polled, wakers, woken, raised, owed >>
        /\ UNCHANGED chunkVars
    /\ UNCHANGED serverVars
        /\ UNCHANGED serverVars

\* with_signals(kinds): a new handler replaces the one there was.
WithSignals(kinds) ==
    LET h == Fold([signals |-> << >>, listened |-> 0], kinds)
    IN  /\ signals' = h.signals
        /\ listened' = h.listened
        /\ asked' = kinds[Len(kinds)]
        /\ polled' = NotPolled
        /\ wakers' = {}
        /\ woken' = FALSE
        /\ owed' = {}
        /\ UNCHANGED raised
        /\ UNCHANGED chunkVars
    /\ UNCHANGED serverVars
        /\ UNCHANGED serverVars

\* The process receives the OS signal os: every listener subscribed to it
\* is notified and wakes the task whose waker it holds; notifications of one
\* listener coalesce.
Raise(os) ==
    /\ signals' = [i \in 1..Len(signals) |->
                      IF signals[i].os = os THEN [signals[i] EXCEPT !.ready = TRUE]
                      ELSE signals[i]]
    /\ raised' = os
    /\ owed' = IF \E i \in 1..Len(signals) : signals[i].os = os THEN owed \cup {os}
               ELSE owed
    /\ woken' = (woken \/ \E i \in wakers : signals[i].os = os)
    /\ wakers' = {i \in wakers : signals[i].os # os}
    /\ UNCHANGED << listened, polled, asked >>
    /\ UNCHANGED chunkVars
    /\ UNCHANGED serverVars

\* Faulty variant: the list is scanned from its end.
FirstReady_Last(sigs) ==
    IF \E i \in 1..Len(sigs) : sigs[i].ready
    THEN CHOOSE i \in 1..Len(sigs) :
            sigs[i].ready /\ \A j \in (i + 1)..Len(sigs) : ~sigs[j].ready
    ELSE 0

\* Index of the first listener that is ready, 0 when none is.
FirstReady(sigs) ==
    IF \E i \in 1..Len(sigs) : sigs[i].ready
    THEN CHOOSE i \in 1..Len(sigs) :
            sigs[i].ready /\ \A j \in 1..(i - 1) : ~sigs[j].ready
    ELSE 0

\* Faulty variant: a poll that found nothing reports an interrupt.
Fallthrough_Interrupt(sigs) == Ready(Interrupt)

\* What poll_recv returns after the loop over the signals.
Fallthrough(sigs) == Pending

\* poll_recv, which recv and Future::poll call: the first ready listener in
\* the order of the list is consumed and its kind returned; the listeners
\* polled before it, all of them when none is ready, keep the task's waker.
PollRecv ==
    LET i == FirstReady(signals)
    IN  /\ polled' = IF i = 0 THEN Fallthrough(signals) ELSE Ready(signals[i].kind)
        /\ signals' = IF i = 0 THEN signals ELSE [signals EXCEPT ![i].ready = FALSE]
        /\ owed' = IF i = 0 THEN owed ELSE owed \ {signals[i].os}
        /\ wakers' = IF i = 0 THEN 1..Len(signals)
                      ELSE (wakers \cup 1..(i - 1)) \ {i}
        /\ woken' = FALSE
        /\ UNCHANGED << listened, asked, raised >>
        /\ UNCHANGED chunkVars
    /\ UNCHANGED serverVars
        /\ UNCHANGED serverVars

AddAny == \E kind \in Inputs : AddSignal(kind)

WithAny ==
    \E n \in 1..MaxBatch : \E kinds \in [1..n -> Inputs] : WithSignals(kinds)

RaiseAny == \E os \in UnixSignalKinds : Raise(os)

NextSignal == AddAny \/ WithAny \/ RaiseAny \/ PollRecv

SpecSignal == Init /\ [][NextSignal]_vars

\* ------------------------------------------------------------ the TLS server
\* A connection task is at one of its awaits (the TLS handshake, the service
\* factory, the connection handler) or has ended; late says that it was
\* spawned after the context was cancelled.
Live == {"tls", "service", "handling"}

Task(st, late) == [st |-> st, late |-> late]

\* Faulty variant: an accept that failed ends the loop.
AfterAcceptError_Return(r) == "failed"

\* Err(_) => continue: the loop goes on to the next accept.
AfterAcceptError(r) == r

\* Faulty variant: the loop accepts as long as the context is not done.
Accepting_UntilDone(done) == ~done

\* loop { .. }: the condition of the accept loop, which has none.
Accepting(done) == TRUE

\* TcpListener::bind(self.bind).await?: an error is returned to the caller.
Bind(ok) ==
    /\ run = "init"
    /\ run' = IF ok THEN "accept" ELSE "failed"
    /\ UNCHANGED << tasks, incoming, accept_errors, ctx_done >>
    /\ UNCHANGED << chunkVars, signalVars >>

\* A client connects to the bound listener.
Connect ==
    /\ run = "accept"
    /\ Len(tasks) + incoming < MaxConns
    /\ incoming' = incoming + 1
    /\ UNCHANGED << run, tasks, accept_errors, ctx_done >>
    /\ UNCHANGED << chunkVars, signalVars >>

\* One round of the loop whose accept succeeds: the connection gets a task
\* of its own, spawned with the context around it.
AcceptOk ==
    /\ run = "accept"
    /\ Accepting(ctx_done)
    /\ incoming > 0
    /\ incoming' = incoming - 1
    /\ tasks' = Append(tasks, Task("tls", ctx_done))
    /\ UNCHANGED << run, accept_errors, ctx_done >>
    /\ UNCHANGED << chunkVars, signalVars >>

\* One round of the loop whose accept fails, with or without the loss of
\* the connection that was waiting.
AcceptErr(lost) ==
    /\ run = "accept"
    /\ Accepting(ctx_done)
    /\ accept_errors < MaxAcceptErrors
    /\ lost <= incoming
    /\ accept_errors' = accept_errors + 1
    /\ incoming' = incoming - lost
    /\ run' = AfterAcceptError(run)
    /\ UNCHANGED << tasks, ctx_done >>
    /\ UNCHANGED << chunkVars, signalVars >>

\* The task of connection c passes one of its awaits, from state `from`, to
\* the next await or to its end.
Step(c, from, to) ==
    /\ c \in 1..Len(tasks)
    /\ tasks[c].st = from
    /\ ~ctx_done
    /\ tasks' = [tasks EXCEPT ![c].st = to]
    /\ UNCHANGED << run, incoming, accept_errors, ctx_done >>
    /\ UNCHANGED << chunkVars, signalVars >>

\* tls_acceptor.accept(tcp_stream).await
Handshake(c, ok) == Step(c, "tls", IF ok THEN "service" ELSE "tls_failed")

\* service_factory.new_service(addr).await
NewService(c, ok) == Step(c, "service", IF ok THEN "handling" ELSE "factory_failed")

\* handle_connection(..).await
HandleConnection(c, ok) == Step(c, "handling", IF ok THEN "closed" ELSE "handle_failed")

\* The caller cancels the context.
CancelContext ==
    /\ ~ctx_done
    /\ ctx_done' = TRUE
    /\ UNCHANGED << run, tasks, incoming, accept_errors >>
    /\ UNCHANGED << chunkVars, signalVars >>

\* with_context(self.ctx.clone()): the task ends at its await once the
\* context is done.
CancelTask(c) ==
    /\ c \in 1..Len(tasks)
    /\ tasks[c].st \in Live
    /\ ctx_done
    /\ tasks' = [tasks EXCEPT ![c].st = "cancelled"]
    /\ UNCHANGED << run, incoming, accept_errors, ctx_done >>
    /\ UNCHANGED << chunkVars, signalVars >>

BindAny == \E ok \in BOOLEAN : Bind(ok)

AcceptErrAny == \E lost \in {0, 1} : AcceptErr(lost)

TaskStep ==
    \E c \in 1..MaxConns, ok \in BOOLEAN :
       Handshake(c, ok) \/ NewService(c, ok) \/ HandleConnection(c, ok)

CancelAny == \E c \in 1..MaxConns : CancelTask(c)

NextServer ==
    BindAny \/ Connect \/ AcceptOk \/ AcceptErrAny \/ TaskStep \/ CancelContext \/ CancelAny

SpecServer == Init /\ [][NextServer]_vars

Front == Head(unread)

RECURSIVE SumLen(_, _)
SumLen(u, k) == IF k = 0 THEN 0 ELSE u[k].n + SumLen(u, k - 1)

CsId(c) == c.basic_header.chunk_stream_id

\* C1: every message is emitted exactly once, in the order in which the
\* terminating chunks of the messages appear in the byte stream, whatever
\* the interleaving of the streams.
C1_EmissionOrder ==
    /\ Len(emitted) = Len(completed)
    /\ \A i \in 1..Len(emitted) :
          /\ CsId(emitted[i]) = completed[i].cs_id
          /\ (Len(completed[i].msg) > 0 /\ Len(emitted[i].payload) > 0)
                => emitted[i].payload[1] = PayloadByte(completed[i].serial, 0)

\* A message started later on stream 74 is emitted before the one on stream 3.
C1_Witness ==
    /\ Len(emitted) = 2 /\ Len(completed) = 2
    /\ CsId(emitted[1]) = 74 /\ CsId(emitted[2]) = 3
    /\ completed[1].serial = 2 /\ completed[2].serial = 1
    /\ Len(emitted[1].payload) = 2 /\ Len(emitted[2].payload) = 2

\* C2: an emitted payload has exactly msg_length bytes and is the
\* concatenation, in arrival order, of the fragments of that message only.
C2_PayloadExact ==
    \A i \in 1..Len(emitted) :
        /\ Len(emitted[i].payload) = emitted[i].message_header.msg_length
        /\ i <= Len(completed) => emitted[i].payload = completed[i].msg

\* A two-fragment message is emitted while another stream is mid-assembly.
C2_Witness ==
    /\ chunk_size = 1
    /\ result.kind = "some"
    /\ Len(result.chunk.payload) = 2
    /\ partial # EmptyMap

\* C6: a partial buffer exists for stream S exactly while a message on S has
\* some but not all of its bytes; the emission on S removes it.
C6_PartialIffMidAssembly ==
    /\ \A S \in DOMAIN partial :
          /\ S \in DOMAIN last_header
          /\ 0 < Len(partial[S])
          /\ Len(partial[S]) < last_header[S].msg_length
    /\ result.kind = "some" => CsId(result.chunk) \notin DOMAIN partial
    /\ (unread = << >> /\ result.kind # "err") =>
          /\ DOMAIN partial = {S \in DOMAIN enc : enc[S].sent # << >>}
          /\ \A S \in DOMAIN partial : partial[S] = enc[S].sent

\* The emission on stream 74 removed its buffer; stream 3 is still mid-assembly.
C6_Witness ==
    /\ unread = << >>
    /\ result.kind = "some" /\ CsId(result.chunk) = 74
    /\ Len(result.chunk.payload) = 2
    /\ DOMAIN partial = {3}

\* C3 as stated: a call consumes nothing or exactly the bytes of one chunk.
C3_OneChunkPerCall ==
    [][ReadChunk => (consumed' = 0 \/ (unread # << >> /\ consumed' = Front.n))]_vars

\* C3 amended: a call that returns Ok consumes exactly the bytes of the whole
\* chunks it decoded (none, one or several), of which only the last may
\* complete a message, and it returns that message.
C3_WholeChunksPerCall ==
    [][(ReadChunk /\ result'.kind \in {"none", "some"}) =>
          /\ nread' <= Len(unread)
          /\ consumed' = SumLen(unread, nread')
          /\ \A i \in 1..(nread' - 1) : ~unread[i].final
          /\ (result'.kind = "some") <=> (nread' >= 1 /\ unread[nread'].final)]_vars

\* One call consumed two chunks and returned the message the second completed.
C3_Witness == nread = 2 /\ result.kind = "some" /\ consumed > 0

\* The buffer does not hold a complete (header, fragment) pair: bytes of the
\* front chunk are missing, or its header came without any fragment.
ShortOfChunk == unread # << >> /\ (Len(buf) < Front.n \/ Front.bad)

\* C4 as stated: on a buffer shorter than a complete (header, fragment) pair
\* the call returns Ok(None) and leaves the buffer unchanged.
C4_ShortBufferOkNone ==
    [][(ReadChunk /\ ShortOfChunk) => (result'.kind = "none" /\ buf' = buf)]_vars

\* C4 amended: a proper prefix of a chunk whose header is valid gives Ok(None)
\* and an unchanged buffer; a complete header that fails validation gives the
\* error even though no payload byte is present.
C4_ShortBufferUntouched ==
    /\ [][(ReadChunk /\ unread # << >> /\ ~Front.bad /\ Len(buf) < Front.n) =>
             (result'.kind = "none" /\ buf' = buf)]_vars
    /\ [][(ReadChunk /\ unread # << >> /\ Front.bad /\ Len(buf) >= Front.n) =>
             result'.kind = "err"]_vars

\* A complete format-0 header with part of its fragment missing was retried.
C4_Witness ==
    /\ result.kind = "none" /\ consumed = 0
    /\ unread # << >> /\ ~Front.bad /\ Front.format = 0
    /\ Front.hlen <= Len(buf) /\ Len(buf) < Front.n

\* C5: after Ok(None) or Ok(Some) the bytes left are a whole number of the
\* peer's chunks: the first unconsumed byte starts a basic header.
C5_ChunkBoundary ==
    result.kind # "err" =>
        /\ cut = 0
        /\ Len(buf) + Len(wire) = SumLen(unread, Len(unread))
        /\ buf # << >> => (unread # << >> /\ buf[1] = Front.first)

\* A call consumed a chunk and left the first bytes of the next one.
C5_Witness == result.kind = "none" /\ consumed > 0 /\ buf # << >> /\ wire # << >>

\* C10: a format 1, 2 or 3 chunk on a stream without a cache entry fails
\* with MissingPreviousChunkHeader(cs_id); only such chunks fail this way,
\* and entries of other streams do not count.
C10_MissingPrevious ==
    /\ [](result.err = "MissingPreviousChunkHeader" =>
             /\ unread # << >>
             /\ Front.format \in 1..3
             /\ result.arg = << Front.cs_id >>
             /\ Front.cs_id \notin DOMAIN last_header)
    /\ [][(/\ ReadChunk
           /\ unread # << >>
           /\ Len(buf) >= Front.n
           /\ Front.format \in 1..3
           /\ Front.cs_id \notin DOMAIN last_header) =>
             result' = Err("MissingPreviousChunkHeader", << Front.cs_id >>)]_vars

\* Stream 74 fails although stream 3 has a cached header.
C10_Witness ==
    /\ result = Err("MissingPreviousChunkHeader", << 74 >>)
    /\ 3 \in DOMAIN last_header

\* The front chunk of the peer's record is complete in the buffer.
FrontReady == unread # << >> /\ Len(buf) >= Front.n

InFlight == Cardinality(DOMAIN partial)
Cached == Cardinality(DOMAIN last_header)

\* C7: never more than MAX_PARTIAL_CHUNKS partial buffers; with that many
\* messages in flight, a chunk starting another one on a further stream id
\* fails with TooManyPartialChunks.
C7_PartialCap ==
    /\ [](InFlight <= MAX_PARTIAL_CHUNKS)
    /\ [][(/\ ReadChunk
           /\ FrontReady
           /\ InFlight = MAX_PARTIAL_CHUNKS
           /\ Front.cs_id \notin DOMAIN partial
           /\ ~Front.final
           /\ (Front.cs_id \in DOMAIN last_header \/ Cached < MAX_PREVIOUS_CHUNK_HEADERS)) =>
             result' = Err("TooManyPartialChunks", << >>)]_vars

\* The fifth message in flight was refused.
C7_Witness ==
    /\ result = Err("TooManyPartialChunks", << >>)
    /\ InFlight = MAX_PARTIAL_CHUNKS
    /\ FrontReady /\ Front.cs_id = 64 + MAX_PARTIAL_CHUNKS

\* C8: never more than MAX_PREVIOUS_CHUNK_HEADERS cached headers; with that
\* many cached, a chunk on a further stream id fails with
\* TooManyPreviousChunkHeaders, also when nothing is in flight any more.
C8_HeaderCap ==
    /\ [](Cached <= MAX_PREVIOUS_CHUNK_HEADERS)
    /\ [][(/\ ReadChunk
           /\ FrontReady
           /\ Cached = MAX_PREVIOUS_CHUNK_HEADERS
           /\ Front.cs_id \notin DOMAIN last_header
           /\ Front.format = 0) =>
             result' = Err("TooManyPreviousChunkHeaders", << >>)]_vars

\* The 101st stream was refused after a hundred emitted messages.
C8_Witness ==
    /\ result = Err("TooManyPreviousChunkHeaders", << >>)
    /\ Cached = MAX_PREVIOUS_CHUNK_HEADERS
    /\ Len(emitted) = MAX_PREVIOUS_CHUNK_HEADERS
    /\ partial = EmptyMap

\* C9: the caps bear on new stream ids only: a chunk on a stream that has a
\* partial buffer is decoded with MAX_PARTIAL_CHUNKS messages in flight, a
\* chunk on a cached stream is decoded with MAX_PREVIOUS_CHUNK_HEADERS
\* headers cached, and neither error names a stream already in its map.
C9_CapsForNewStreamsOnly ==
    /\ [](result.err = "TooManyPartialChunks" =>
             (unread # << >> /\ Front.cs_id \notin DOMAIN partial))
    /\ [](result.err = "TooManyPreviousChunkHeaders" =>
             (unread # << >> /\ Front.cs_id \notin DOMAIN last_header))
    /\ [][(/\ ReadChunk
           /\ FrontReady
           /\ InFlight = MAX_PARTIAL_CHUNKS
           /\ Front.cs_id \in DOMAIN partial) => nread' >= 1]_vars
    /\ [][(/\ ReadChunk
           /\ FrontReady
           /\ Cached = MAX_PREVIOUS_CHUNK_HEADERS
           /\ Front.cs_id \in DOMAIN last_header
           /\ (Front.cs_id \in DOMAIN partial \/ Front.final
               \/ InFlight < MAX_PARTIAL_CHUNKS)) => nread' >= 1]_vars

\* With both maps full, a further fragment on stream 64 was appended.
C9_Witness ==
    /\ Cached = MAX_PREVIOUS_CHUNK_HEADERS
    /\ InFlight = MAX_PARTIAL_CHUNKS
    /\ result.kind = "none" /\ nread = 1
    /\ Len(partial[64]) = 2

\* The chunk at which a call stopped: the one after those it decoded.
Stopped == unread[nread' + 1]

\* Stream S has the same cache entry, or none, before and after the step.
SameEntry(S) ==
    /\ (S \in DOMAIN last_header) <=> (S \in DOMAIN last_header')
    /\ (S \in DOMAIN last_extended) <=> (S \in DOMAIN last_extended')
    /\ S \in DOMAIN last_header =>
          (last_header'[S] = last_header[S] /\ last_extended'[S] = last_extended[S])

C12_DeltaAdded ==
    [][(/\ ReadChunk
        /\ FrontReady
        /\ ~Front.bad
        /\ Front.format \in {1, 2}) =>
          LET S == Front.cs_id
              base == last_header[S].timestamp
              sum == Plus32(base, Front.value)
          IN  IF Fits32(sum)
              THEN /\ nread' = 1
                   /\ last_header'[S].timestamp = sum
                   /\ result'.kind = "some" => result'.chunk.message_header.timestamp = sum
              ELSE /\ result' = Err("TimestampOverflow", << base, Front.value >>)
                   /\ last_header' = last_header]_vars

\* A three-chunk message with an extended timestamp of 0x01000000, an
\* extended delta of 0x01000000 and a delta of 1 is emitted at 0x02000001.
C12_Witness ==
    /\ chunk_size = 1
    /\ result.kind = "some"
    /\ result.chunk.message_header.timestamp = << 512, 1 >>
    /\ Len(result.chunk.payload) = 3
    /\ completed[Len(completed)].format = 2

\* The last chunk the decoder consumed that completed a message.
LastDone == completed[Len(completed)]

\* C13: four bytes of extended timestamp are consumed after the message
\* header exactly when the 24-bit field of a format 0, 1 or 2 header is
\* 0xFFFFFF, or the chunk has format 3 and the most recent header on its
\* stream had the extended form: a chunk that decodes takes its basic header,
\* its message header, those four bytes or none, and its fragment.
C13_ExtendedPresence ==
    [][(ReadChunk /\ FrontReady /\ ~Front.bad /\ result'.kind # "err") =>
          LET S == Front.cs_id
              present == \/ Front.format \in 0..2 /\ Front.field = EXT_MARK
                         \/ Front.format = 3 /\ enc[S].ext
          IN  /\ nread' >= 1
              /\ nread' = 1 =>
                    consumed' = BasicForm(S) + MessageHeaderLen(Front.format)
                                + (IF present THEN 4 ELSE 0) + Front.take
              /\ Front.format \in 0..2 => last_extended'[S] = (Front.field = EXT_MARK)]_vars

\* After an extended format-0 header and a plain format-2 delta, a format-3
\* chunk took its basic header and its fragment, and no other byte.
C13_Witness ==
    /\ chunk_size = DEFAULT_CHUNK_SIZE
    /\ result.kind = "some" /\ nread = 1
    /\ completed # << >> /\ LastDone.format = 3 /\ ~LastDone.ext
    /\ consumed = 1 + 3
    /\ result.chunk.message_header.timestamp = << 256, 1 >>

\* C14: a format-3 chunk materializes the cached header of its stream,
\* field by field; four bytes that follow it are dropped, whatever they are.
C14_Format3Verbatim ==
    [][(ReadChunk /\ FrontReady /\ ~Front.bad /\ Front.format = 3) =>
          LET S == Front.cs_id
          IN  /\ nread' = 1
              /\ last_header'[S] = last_header[S]
              /\ result'.kind = "some" => result'.chunk.message_header = last_header[S]
              /\ consumed' = 1 + (IF Front.ext THEN 4 ELSE 0) + Front.take]_vars

\* A format-3 chunk followed by the bytes FF FF FF FE started and completed
\* a message at the cached timestamp 0x01000000.
C14_Witness ==
    /\ result.kind = "some" /\ nread = 1
    /\ completed # << >> /\ LastDone.format = 3 /\ LastDone.ext
    /\ LastDone.value = NEAR_MAX
    /\ consumed = 1 + 4 + 3
    /\ result.chunk.message_header.timestamp = EXT_VALUE

\* C15: a format-3 chunk that starts a message yields cached.timestamp plus
\* the delta of the stream (that of its last format 1 or 2 header): messages
\* started by format-3 chunks advance in time.
C15_Format3AddsDelta ==
    [][(/\ ReadChunk
        /\ FrontReady
        /\ ~Front.bad
        /\ Front.format = 3
        /\ Front.cs_id \notin DOMAIN partial) =>
          LET S == Front.cs_id
              sum == Plus32(last_header[S].timestamp, Front.delta)
          IN  IF Fits32(sum)
              THEN nread' = 1 /\ last_header'[S].timestamp = sum
              ELSE result'.err = "TimestampOverflow"]_vars

\* What stream S has accumulated, as a byte sequence.
Held(S) == IF S \in DOMAIN partial THEN partial[S] ELSE << >>

\* C16: update_max_chunk_size(n) leaves the partial buffers, what they hold
\* and the header cache as they are, and the next fragment decoded, on a
\* stream in mid-assembly too, has min(n, msg_length - accumulated) bytes,
\* which are appended to what the stream held.
C16_ChunkSizeNextFragment ==
    /\ [][chunk_size' # chunk_size =>
             /\ partial' = partial
             /\ last_header' = last_header /\ last_extended' = last_extended
             /\ buf' = buf /\ emitted' = emitted]_vars
    /\ [][(ReadChunk /\ FrontReady /\ ~Front.bad) =>
             LET S == Front.cs_id
                 take == Min(chunk_size, Front.len - Accumulated(partial, S))
                 all == Held(S) \o SubSeq(buf, Front.hlen + 1, Front.hlen + take)
             IN  /\ nread' = 1
                 /\ consumed' = Front.hlen + take
                 /\ IF Len(all) = Front.len
                    THEN result'.kind = "some" /\ result'.chunk.payload = all
                    ELSE result'.kind = "none" /\ partial'[S] = all
                 /\ \A T \in DOMAIN partial \ {S} :
                       T \in DOMAIN partial' /\ partial'[T] = partial[T]]_vars

\* A message begun with a one-byte fragment was completed, after the chunk
\* size went from 1 to 2 and then to 128, by fragments of two and one bytes,
\* while another stream was in mid-assembly.
C16_Witness ==
    /\ chunk_size = DEFAULT_CHUNK_SIZE
    /\ result.kind = "some" /\ Len(result.chunk.payload) = 4
    /\ completed # << >> /\ LastDone.format = 3 /\ LastDone.take = 1
    /\ consumed = 2
    /\ partial # EmptyMap

\* The front chunk carries a full header (format 0, or format 1 on a stream
\* with a cached header) and all of it is in the buffer.
FrontHeader ==
    /\ FrontReady
    /\ Front.format \in {0, 1}
    /\ Front.format = 1 => Front.cs_id \in DOMAIN last_header

\* C17: a format 0 or 1 header declaring more than the maximum partial
\* payload size fails with PartialChunkTooLarge(msg_length), with no payload
\* byte in the buffer and before any partial buffer is created or grown; no
\* partial buffer and no emitted message has a length above the bound.
C17_LengthBound ==
    /\ [](\A S \in DOMAIN partial :
             /\ last_header[S].msg_length <= MAX_PARTIAL_PAYLOAD_SIZE
             /\ Len(partial[S]) <= MAX_PARTIAL_PAYLOAD_SIZE)
    /\ [](\A i \in 1..Len(emitted) :
             emitted[i].message_header.msg_length <= MAX_PARTIAL_PAYLOAD_SIZE)
    /\ [][(/\ ReadChunk
           /\ FrontHeader
           /\ Front.type \in MessageTypeIDs
           /\ Front.len > MAX_PARTIAL_PAYLOAD_SIZE) =>
             /\ result' = Err("PartialChunkTooLarge", << Front.len >>)
             /\ partial' = partial]_vars

\* A format-1 header declaring 0xFFFFFF bytes was refused with no payload
\* byte in the buffer; the message in flight on its stream was not touched.
C17_Witness ==
    /\ result = Err("PartialChunkTooLarge", << OVERSIZED >>)
    /\ FrontReady /\ Front.format = 1 /\ Len(buf) = Front.hlen
    /\ Front.cs_id \in DOMAIN partial
    /\ Len(partial[Front.cs_id]) = 1

\* C18: a format 0 or 1 header with an unrecognized msg_type_id fails with
\* InvalidMessageTypeID(id); no chunk with such a type id is emitted or
\* stored in the header cache.
C18_InvalidTypeId ==
    /\ [](\A S \in DOMAIN last_header : last_header[S].msg_type_id \in MessageTypeIDs)
    /\ [](\A i \in 1..Len(emitted) :
             emitted[i].message_header.msg_type_id \in MessageTypeIDs)
    /\ [][(/\ ReadChunk
           /\ FrontHeader
           /\ Front.type \notin MessageTypeIDs) =>
             /\ result' = Err("InvalidMessageTypeID", << Front.type >>)
             /\ last_header' = last_header
             /\ emitted' = emitted]_vars

\* A format-1 header with type id 255 was refused on a stream whose cached
\* header has type 9.
C18_Witness ==
    /\ result = Err("InvalidMessageTypeID", << INVALID_TYPE >>)
    /\ FrontReady /\ Front.format = 1
    /\ last_header[Front.cs_id].msg_type_id = 9

\* C19: in a format-0 header msg_stream_id is little-endian, the timestamp,
\* msg_length and the extended timestamp are big-endian, for the bytes of
\* the header whatever they are.  b is the buffer before the call, byte 1
\* its basic header.
C19_Endianness ==
    [][(ReadChunk /\ Len(buf) >= 12 /\ buf[1] = 3) =>
          LET b == buf
              field == b[2] * 65536 + b[3] * 256 + b[4]
              len == b[5] * 65536 + b[6] * 256 + b[7]
              sid == << b[11] + 256 * b[12], b[9] + 256 * b[10] >>
              ts == IF field = EXT_MARK
                    THEN << b[13] * 256 + b[14], b[15] * 256 + b[16] >>
                    ELSE << b[2], b[3] * 256 + b[4] >>
          IN  IF len > MAX_PARTIAL_PAYLOAD_SIZE
              THEN result' = Err("PartialChunkTooLarge", << len >>)
              ELSE /\ result'.kind \in {"none", "some"}
                   /\ last_header'[3] = [timestamp |-> ts, msg_length |-> len,
                                         msg_type_id |-> b[8], msg_stream_id |-> sid]
                   /\ result'.kind = "some" => result'.chunk.message_header = last_header'[3]
                   /\ consumed' = (IF field = EXT_MARK THEN 16 ELSE 12)
                                   + Min(DEFAULT_CHUNK_SIZE, len)]_vars

\* Length bytes 00 0F 00 gave 3840, stream-id bytes 00 01 00 FF gave
\* 0xFF000100, timestamp bytes FF FF FF with FF FE FD FC gave 0xFFFEFDFC.
C19_Witness ==
    /\ result.kind = "none" /\ nread = 1
    /\ last_header[3].msg_length = 3840
    /\ last_header[3].msg_stream_id = << 65280, 256 >>
    /\ last_header[3].timestamp = << 65534, 65020 >>
    /\ Len(partial[3]) = DEFAULT_CHUNK_SIZE

\* C20: the basic header gives format = b0 >> 6 and a chunk stream id of
\* cs_low (one byte), 64 + byte1 (two bytes, cs_low = 0) or 64 + byte1 +
\* 256 * byte2 (three bytes, cs_low = 1), an id in 2..65599; a buffer shorter
\* than the encoding is left as it is.  The chunks carry empty messages, so
\* that a call on a whole chunk returns it or fails on its stream id.
C20_BasicHeader ==
    [][(ReadChunk /\ buf # << >>) =>
          LET format == buf[1] \div 64
              cs_low == buf[1] % 64
              size == IF cs_low = 0 THEN 2 ELSE IF cs_low = 1 THEN 3 ELSE 1
              id == IF cs_low = 0 THEN 64 + buf[2]
                    ELSE IF cs_low = 1 THEN 64 + buf[2] + 256 * buf[3] ELSE cs_low
          IN  IF Len(buf) < size
              THEN result' = OkNone /\ buf' = buf
              ELSE /\ id \in 2..65599
                   /\ result'.kind = "some" =>
                         /\ result'.chunk.basic_header =
                               [format |-> format, chunk_stream_id |-> id]
                         /\ consumed' = size + MessageHeaderLen(format)
                   /\ result'.kind = "err" =>
                         /\ format # 0
                         /\ result' = Err("MissingPreviousChunkHeader", << id >>)
                   /\ result'.kind = "none" =>
                         /\ Len(buf) < size + MessageHeaderLen(format)
                         /\ buf' = buf]_vars

\* The bytes 41 0A 0D gave format 1 on stream 64 + 10 + 256 * 13 = 3402.
C20_Witness ==
    /\ result.kind = "some" /\ consumed = 3 + 7
    /\ result.chunk.basic_header = [format |-> 1, chunk_stream_id |-> 3402]

\* What stream S holds after the step: the payload the call returned on S,
\* or its partial buffer.
HeldAfter(S) ==
    IF result'.kind = "some" /\ CsId(result'.chunk) = S THEN result'.chunk.payload
    ELSE IF S \in DOMAIN partial' THEN partial'[S] ELSE << >>

\* Bytes the message on S misses before and after the one chunk a call
\* decoded, counted against the msg_length that chunk materialized.
MissingBefore(S) == last_header'[S].msg_length - Accumulated(partial, S)
MissingAfter(S) == last_header'[S].msg_length - Len(HeldAfter(S))

\* C21 as stated: the bytes missing strictly decrease with every fragment
\* appended, for every msg_length, 0 included, and are zero exactly at the
\* fragment on which the message is emitted.
C21_StrictlyDecreasing ==
    [][(ReadChunk /\ FrontReady /\ ~Front.bad /\ nread' = 1) =>
          /\ MissingAfter(Front.cs_id) < MissingBefore(Front.cs_id)
          /\ (result'.kind = "some") <=> (MissingAfter(Front.cs_id) = 0)]_vars

\* C21 amended: the bytes missing never increase, they decrease by the
\* length of the fragment, strictly unless nothing was missing (a message of
\* length 0, whose only fragment is empty), and they are zero exactly at the
\* chunk on which the message is emitted, which removes the partial buffer.
C21_RemainingDecreases ==
    [][(ReadChunk /\ FrontReady /\ ~Front.bad /\ nread' = 1) =>
          LET S == Front.cs_id
          IN  /\ MissingBefore(S) >= 0 /\ MissingAfter(S) >= 0
              /\ MissingAfter(S) = MissingBefore(S) - Min(chunk_size, MissingBefore(S))
              /\ (MissingAfter(S) < MissingBefore(S)) <=> (MissingBefore(S) > 0)
              /\ (result'.kind = "some") <=> (MissingAfter(S) = 0)
              /\ (S \in DOMAIN partial') <=> (MissingAfter(S) > 0)]_vars

\* A two-byte message went from two bytes missing to one, then to none, and
\* was emitted.
C21_Witness ==
    /\ chunk_size = 1
    /\ result.kind = "some" /\ nread = 1 /\ consumed = 2
    /\ Len(result.chunk.payload) = 2
    /\ result.chunk.message_header.msg_length = 2
    /\ CsId(result.chunk) \notin DOMAIN partial

\* The tuple the decoder emitted and the tuple the encoder framed.
Decoded(c) ==
    << c.message_header.msg_type_id, c.message_header.msg_stream_id,
       c.message_header.timestamp, c.payload >>

Original(m) == << m.mtype, MSG_STREAM_ID, m.ts, m.msg >>

\* C22: what a conforming encoder with the same chunk size framed, in any
\* mix of header formats and any interleaving, is decoded to exactly the
\* original (msg_type_id, msg_stream_id, timestamp, payload) tuples, in order.
C22_RoundTrip ==
    /\ Len(emitted) = Len(completed)
    /\ \A i \in 1..Len(emitted) : Decoded(emitted[i]) = Original(completed[i])

\* Whether the kinds of the list are pairwise different.
Distinct(sigs) ==
    \A i, j \in 1..Len(sigs) : sigs[i].kind = sigs[j].kind => i = j

\* C23: add_signal, with_signal and with_signals never add a signal twice:
\* adding a kind that is in the handler leaves the list as it is and creates
\* no listener, so each kind is in the list at most once.
C23_NoDuplicateKind ==
    /\ [](Distinct(signals) /\ listened = Len(signals))
    /\ [][\A kind \in Inputs :
             (AddSignal(kind) /\ Listed(signals, kind)) =>
                 signals' = signals /\ listened' = listened]_vars

\* The kind added first was added again after a second kind: the list still
\* has the two entries and two listeners.
C23_Witness ==
    /\ Len(signals) = 2
    /\ listened = 2
    /\ asked = signals[1].kind
    /\ asked # signals[2].kind

\* C24: the handler can be polled repeatedly; every raise is reported once:
\* a poll returns Pending when no raise of a registered signal is unreported,
\* and otherwise returns the kind of a registered signal whose raise is.
C24_ReportedOnce ==
    [][PollRecv =>
          IF owed = {} THEN polled' = Pending
          ELSE /\ polled'.st = "ready"
               /\ Listed(signals, polled'.kind)
               /\ Listen(polled'.kind) \in owed]_vars

\* C25: a handler with no registered signals never resolves: every poll on
\* it returns Pending, whatever signals the process receives.
C25_EmptyNeverResolves ==
    /\ [](signals = << >> => polled.st # "ready")
    /\ [][(PollRecv /\ signals = << >>) => polled' = Pending]_vars

\* The process received a signal and the poll of the empty handler returned
\* Pending.
C25_Witness ==
    /\ signals = << >>
    /\ raised # ""
    /\ polled = Pending

\* C26: one read_chunk call goes on consuming complete chunks until a chunk
\* completes a message, which it returns leaving the later bytes in the
\* buffer, or until no complete chunk is at the front of the buffer, and only
\* then it returns Ok(None).
C26_ReadLoop ==
    [][(ReadChunk /\ result'.kind # "err") =>
          /\ buf' = SubSeqFrom(buf, consumed' + 1)
          /\ nread' <= Len(unread)
          /\ Len(unread') = Len(unread) - nread'
          /\ \A i \in 1..(nread' - 1) : ~unread[i].final
          /\ result'.kind = "none" =>
                /\ \A i \in 1..nread' : ~unread[i].final
                /\ unread' = << >> \/ Len(buf') < unread'[1].n
          /\ result'.kind = "some" =>
                /\ nread' >= 1
                /\ unread[nread'].final
                /\ CsId(result'.chunk) = unread[nread'].cs_id]_vars

\* One call consumed two chunks of two streams, neither of which completes
\* its message, emptied the buffer and returned Ok(None).
C26_Witness ==
    /\ result.kind = "none"
    /\ nread = 2
    /\ buf = << >>
    /\ consumed > 0
    /\ DOMAIN partial = {3, 74}
    /\ emitted = << >>

\* C27: while a message is in flight on a stream, the fragment of a following
\* chunk on that stream is appended to the partial buffer whatever the format
\* of the chunk (0, 1, 2 or 3): a header of format 0 or 1 sent again does not
\* start the payload afresh.
C27_AppendedAnyFormat ==
    [][(/\ ReadChunk
        /\ FrontReady
        /\ ~Front.bad
        /\ Front.cs_id \in DOMAIN partial
        /\ nread' = 1) =>
          LET S == Front.cs_id
              take == Min(chunk_size, last_header'[S].msg_length - Len(partial[S]))
          IN  /\ Front.format \in 0..3
              /\ take = Front.take
              /\ HeldAfter(S) = partial[S] \o SubSeq(buf, Front.hlen + 1, Front.hlen + take)]_vars

\* A format-0 header sent again for the second fragment completed the
\* two-fragment message with the bytes of both fragments.
C27_Witness ==
    /\ chunk_size = 1
    /\ result.kind = "some"
    /\ nread = 1
    /\ result.chunk.basic_header.format = 0
    /\ LastDone.format = 0
    /\ result.chunk.payload = PayloadBytes(LastDone.serial, 0, 2)

\* C28: the basic header and the message header of an emitted chunk are
\* those of the chunk that completed the message, equal to the header cached
\* for the stream at that moment: the format is the terminating chunk's, and
\* the deltas and the length carried by the chunks since the first one are
\* in the header.
C28_TerminatingHeader ==
    /\ [](result.kind = "some" =>
            /\ result.chunk.message_header = last_header[CsId(result.chunk)]
            /\ result.chunk.basic_header.format = LastDone.format
            /\ CsId(result.chunk) = LastDone.cs_id)
    /\ [][(ReadChunk /\ FrontReady /\ result'.kind = "some" /\ nread' = 1) =>
             LET S == Front.cs_id
                 h == result'.chunk.message_header
             IN  /\ result'.chunk.basic_header = [format |-> Front.format,
                                                  chunk_stream_id |-> S]
                 /\ h = last_header'[S]
                 /\ h.msg_length = Front.len
                 /\ Front.format = 0 => h.timestamp = Front.value
                 /\ Front.format \in {1, 2} =>
                       h.timestamp = Plus32(last_header[S].timestamp, Front.value)
                 /\ Front.format = 3 => h = last_header[S]]_vars

\* A message started by a format-0 chunk with timestamp 1 and continued by
\* two format-2 chunks with delta 1 each is emitted with format 2 and
\* timestamp 3.
C28_Witness ==
    /\ chunk_size = 1
    /\ result.kind = "some"
    /\ result.chunk.basic_header.format = 2
    /\ result.chunk.message_header.timestamp = << 0, 3 >>
    /\ Len(result.chunk.payload) = 3
    /\ Len(emitted) = 1

\* C29: a message whose msg_length is at most chunk_size (0 included) is
\* emitted by the call that decodes its single chunk and never gets a
\* partial buffer, also with MAX_PARTIAL_CHUNKS other messages in flight;
\* what stays of it is its entry in the header cache.
C29_SingleChunkMessage ==
    [][(/\ ReadChunk
        /\ FrontReady
        /\ ~Front.bad
        /\ Front.cs_id \notin DOMAIN partial
        /\ Front.len <= chunk_size
        /\ (Front.cs_id \in DOMAIN last_header \/ Cached < MAX_PREVIOUS_CHUNK_HEADERS)) =>
          /\ result'.kind = "some"
          /\ nread' = 1
          /\ CsId(result'.chunk) = Front.cs_id
          /\ Len(result'.chunk.payload) = Front.len
          /\ partial' = partial
          /\ Front.cs_id \in DOMAIN last_header'
          /\ last_header'[Front.cs_id] = result'.chunk.message_header]_vars

\* With MAX_PARTIAL_CHUNKS messages in flight an empty message on a further
\* stream was emitted; the stream has a cache entry and no partial buffer.
C29_Witness ==
    /\ InFlight = MAX_PARTIAL_CHUNKS
    /\ result.kind = "some"
    /\ result.chunk.payload = << >>
    /\ CsId(result.chunk) = 64 + MAX_PARTIAL_CHUNKS
    /\ CsId(result.chunk) \in DOMAIN last_header
    /\ CsId(result.chunk) \notin DOMAIN partial

\* C30: the header cache outlives the messages: emitting a message on a
\* stream removes its partial buffer and keeps its cache entry, no entry of
\* the cache is ever removed, and a later format 1, 2 or 3 chunk on the
\* stream is decoded with the fields it omits taken from the entry.
C30_CacheOutlivesMessage ==
    /\ [][DOMAIN last_header \subseteq DOMAIN last_header']_vars
    /\ [](result.kind = "some" =>
            /\ CsId(result.chunk) \notin DOMAIN partial
            /\ CsId(result.chunk) \in DOMAIN last_header)
    /\ [][(/\ ReadChunk
           /\ FrontReady
           /\ ~Front.bad
           /\ Front.format \in 1..3
           /\ Front.cs_id \in DOMAIN last_header
           /\ Front.cs_id \notin DOMAIN partial
           /\ Fits32(Plus32(last_header[Front.cs_id].timestamp,
                            IF Front.format = 3 THEN << 0, 0 >> ELSE Front.value))) =>
             LET S == Front.cs_id
             IN  /\ nread' >= 1
                 /\ nread' = 1 =>
                       /\ last_header'[S].msg_stream_id = last_header[S].msg_stream_id
                       /\ Front.format \in 2..3 =>
                             /\ last_header'[S].msg_length = last_header[S].msg_length
                             /\ last_header'[S].msg_type_id = last_header[S].msg_type_id
                       /\ Front.format = 3 => last_header'[S] = last_header[S]]_vars

\* After a message was emitted on stream 3 a format-3 chunk on the stream
\* was decoded to a second message with the cached header.
C30_Witness ==
    /\ chunk_size = DEFAULT_CHUNK_SIZE
    /\ Len(emitted) = 2
    /\ result.kind = "some"
    /\ CsId(emitted[1]) = 3
    /\ CsId(emitted[2]) = 3
    /\ emitted[2].basic_header.format = 3
    /\ emitted[2].message_header = emitted[1].message_header
    /\ partial = EmptyMap
    /\ 3 \in DOMAIN last_header

\* The stream ids of the chunks a call decoded.
Touched == {unread[i].cs_id : i \in 1..nread'}

\* Whether map m has the same entry, or the same lack of one, for B after
\* the step.
Untouched(m, n, B) ==
    /\ (B \in DOMAIN m) <=> (B \in DOMAIN n)
    /\ B \in DOMAIN m => m[B] = n[B]

\* C31: streams are independent: a call changes the cached header, the
\* extended flag and the partial buffer only of the streams whose chunks it
\* decoded, and the message emitted on a stream has the bytes the peer sent
\* on that stream, whatever chunks of other streams came in between.
C31_StreamsIndependent ==
    /\ [][ReadChunk =>
             /\ nread' <= Len(unread)
             /\ \A B \in (DOMAIN last_header' \cup DOMAIN partial') \ Touched :
                   /\ Untouched(last_header, last_header', B)
                   /\ Untouched(last_extended, last_extended', B)
                   /\ Untouched(partial, partial', B)
             /\ DOMAIN last_header \subseteq DOMAIN last_header'
             /\ DOMAIN partial \ Touched \subseteq DOMAIN partial']_vars
    /\ [](result.kind = "some" =>
            /\ CsId(result.chunk) = LastDone.cs_id
            /\ result.chunk.payload = LastDone.msg)

\* A chunk of stream 74 came between the two chunks of a message on stream
\* 3: the message is emitted whole and the byte of stream 74 is still held.
C31_Witness ==
    /\ chunk_size = 1
    /\ result.kind = "some"
    /\ nread = 1
    /\ CsId(result.chunk) = 3
    /\ result.chunk.payload = PayloadBytes(1, 0, 2)
    /\ 74 \in DOMAIN partial
    /\ partial[74] = PayloadBytes(2, 0, 1)

\* Bytes of the first k chunks of the peer's record.
RECURSIVE BytesOf(_, _)
BytesOf(u, k) == IF k = 0 THEN 0 ELSE Head(u).n + BytesOf(Tail(u), k - 1)

\* C32: every read_chunk call returns Ok(Some), Ok(None) or Err after at
\* most as many rounds of its loop as the buffer holds chunks: each chunk it
\* decodes takes that chunk's bytes, at least the byte of its basic header,
\* from the buffer, also when the fragment is empty, and a call that decodes
\* nothing takes nothing.
C32_CallTerminates ==
    [][ReadChunk =>
          /\ result'.kind \in {"some", "none", "err"}
          /\ nread' <= Len(unread)
          /\ consumed' = BytesOf(unread, nread')
          /\ consumed' >= nread'
          /\ consumed' <= Len(buf)
          /\ Len(buf') = Len(buf) - consumed'
          /\ result'.kind = "some" => nread' >= 1]_vars

\* A call decoded a chunk with an empty fragment, took the thirteen bytes
\* of its headers and returned the empty message, with a further chunk left
\* in the buffer.
C32_Witness ==
    /\ result.kind = "some"
    /\ nread = 1
    /\ result.chunk.payload = << >>
    /\ result.chunk.message_header.msg_length = 0
    /\ consumed = 2 + 11
    /\ buf # << >>

\* C33: poll_recv returns the kind of the first listener, in the order the
\* signals were added, that is ready, and consumes only that one: the other
\* pending signals stay pending until a later poll returns them; it returns
\* Pending only when it has polled every listener, each of which then holds
\* the waker, so that the raise of any registered signal wakes the task.
C33_FirstReadyInOrder ==
    /\ [][PollRecv =>
             /\ polled'.st = "ready" =>
                   \E i \in 1..Len(signals) :
                      /\ signals[i].ready
                      /\ \A j \in 1..(i - 1) : ~signals[j].ready
                      /\ polled'.kind = signals[i].kind
                      /\ signals' = [signals EXCEPT ![i].ready = FALSE]
             /\ polled'.st # "ready" =>
                   /\ polled' = Pending
                   /\ \A j \in 1..Len(signals) : ~signals[j].ready
                   /\ signals' = signals
                   /\ wakers' = 1..Len(signals)]_vars
    /\ [][(AddAny \/ RaiseAny \/ PollRecv) =>
             \A j \in 1..Len(signals) :
                signals[j].ready =>
                   \/ signals'[j].ready
                   \/ polled' = Ready(signals[j].kind) /\ owed' = owed \ {signals[j].os}]_vars
    /\ [][\A os \in UnixSignalKinds :
             (Raise(os) /\ \E j \in wakers : signals[j].os = os) => woken']_vars

\* Two signals were pending at once: the poll after the raise of the first
\* listener's signal returned that listener's kind and left the second
\* listener, whose signal was raised earlier, ready.
C33_Witness ==
    /\ Len(signals) = 2
    /\ signals[1].os # signals[2].os
    /\ raised = signals[1].os
    /\ polled = Ready(signals[1].kind)
    /\ ~signals[1].ready
    /\ signals[2].ready

\* C34: whatever kinds were added, no two entries of the handler listen for
\* the same OS signal, so that one delivery is reported once.
C34_OneListenerPerOsSignal ==
    \A i, j \in 1..Len(signals) : signals[i].os = signals[j].os => i = j

\* Whether the step is a failure of the task of connection c.
Fails(c) == Handshake(c, FALSE) \/ NewService(c, FALSE) \/ HandleConnection(c, FALSE)

\* Whether everything but the task of connection c is as before the step.
OnlyTask(c) ==
    /\ run' = run
    /\ incoming' = incoming
    /\ Len(tasks') = Len(tasks)
    /\ \A d \in 1..Len(tasks) : d # c => tasks'[d] = tasks[d]

\* C35: a failure that concerns one connection (accept error, TLS handshake
\* error, service-factory error, error while handling) ends at most that
\* connection: the loop goes on accepting, a connection that waits is
\* accepted whatever the other tasks are doing, a stalled handshake
\* included, and gets a task of its own.
C35_FailuresAreLocal ==
    /\ [][\A c \in 1..MaxConns : Fails(c) => (run = "accept" /\ OnlyTask(c))]_vars
    /\ [][AcceptErrAny => (run' = "accept" /\ tasks' = tasks)]_vars
    /\ [][AcceptOk => (run' = "accept" /\ tasks' = Append(tasks, Task("tls", ctx_done)))]_vars
    /\ []((run = "accept" /\ incoming > 0) => ENABLED AcceptOk)
    /\ []((run = "accept" /\ ~ctx_done) =>
            \A c \in 1..Len(tasks) :
               tasks[c].st \in Live => ENABLED (\E ok \in BOOLEAN :
                  Handshake(c, ok) \/ NewService(c, ok) \/ HandleConnection(c, ok)))

\* After a failed accept and a failed handshake of the first connection,
\* and with the handshake of the second connection still going on, the third
\* connection was accepted and handled to its end.
C35_Witness ==
    /\ run = "accept"
    /\ accept_errors > 0
    /\ Len(tasks) = 3
    /\ tasks[1].st = "tls_failed"
    /\ tasks[2].st = "tls"
    /\ tasks[3].st = "closed"

\* C36: run returns only with the error of the bind: once the listener is
\* bound the call never returns; cancelling the context ends the connection
\* tasks, each at its await, and the loop goes on accepting connections,
\* whose tasks are spawned and cancelled in turn.
C36_RunNeverReturns ==
    /\ [](run \in {"init", "accept", "failed"})
    /\ [][run = "accept" => run' = "accept"]_vars
    /\ [][run' = "failed" => (run = "failed" \/ BindAny)]_vars
    /\ [](run = "failed" => tasks = << >>)
    /\ [][CancelContext => (run' = run /\ tasks' = tasks /\ incoming' = incoming)]_vars
    /\ [][\A c \in 1..MaxConns : CancelTask(c) => OnlyTask(c)]_vars
    /\ [][ctx_done =>
             \A c \in 1..Len(tasks) : tasks'[c].st \in {tasks[c].st, "cancelled"}]_vars
    /\ []((run = "accept" /\ incoming > 0) => ENABLED AcceptOk)

\* The context was cancelled with the loop running: a task spawned before
\* was cancelled, and a connection accepted afterwards got a task that was
\* cancelled as well.
C36_Witness ==
    /\ run = "accept"
    /\ ctx_done
    /\ Len(tasks) = 2
    /\ tasks[1] = Task("cancelled", FALSE)
    /\ tasks[2] = Task("cancelled", TRUE)
====
